---- MODULE Spec2Model ----
(***************************************************************************)
(* Model of the blagnac ping pipeline: the scraper appends pings to the    *)
(* "flights" table (src/scrape.py), and aggregate_takeoffs_landings        *)
(* (src/blagnacoscope/frontend/utils/__init__.py) selects the runway       *)
(* candidates, keeps those within the airport zone and segments each       *)
(* aircraft's pings into sub-flights, aggregates each sub-flight into one  *)
(* runway event and enriches it from the reference tables.  The pages of   *)
(* the frontend (src/streamlit/pages) consume the events.                  *)
(*                                                                         *)
(* Numbers: headings are compared in tenths of a degree (RWY_HDG = 142.8   *)
(* is 1428).  Positions are metres east/north of the airport reference     *)
(* point on the local tangent plane; Geod.fwd is modelled on that plane    *)
(* for the runway bearing of the 3-4-5 triangle (143.13 degrees, the       *)
(* integer-sided bearing nearest to 142.8) and its quarter turns.          *)
(***************************************************************************)
EXTENDS Integers, Sequences, FiniteSets, TLC

VARIABLES db, df, gdf, ran, toff_land, page, scraper, fetched, arg, out,
          nb_flights, timer, wind_csv, playback, day_pings

vars == <<db, df, gdf, ran, toff_land, page, scraper, fetched, arg, out,
          nb_flights, timer, wind_csv, playback, day_pings>>

-----------------------------------------------------------------------------
(* Bounds of the model *)

\* rows in the flights table, pipeline specification
MaxRows == 3

\* rows in the flights table, segmentation specification
MaxSegRows == 4

\* rows in the flights table, aggregation specification
MaxAggRows == 3

\* rows in the flights table, ingestion specification
MaxScrapeRows == 3

\* the polling loop is followed for this many seconds after its start
MaxElapsed == 150

\* rows in the table of the polling loop
MaxLoopRows == 2

\* the events of the wind specification lie on the days 0..MaxWindDay
MaxWindDay == 4

\* runs of async_get_flights
MaxRuns == 2

\* requests the playback service rejects with HTTP 429 before it accepts all
MaxRejects == 2

\* days of pings async_get_pings asks for
MaxDays == 2

\* snapshots catch_pings_of_day queries per day
MaxSnapshots == 3

-----------------------------------------------------------------------------
(* Ping Filter: the SQL predicates *)

\* RWY_HDG = 142.8, in tenths of a degree
RWY_HDG == 1428

\* SQLite's % on integers: the result has the sign of the dividend
SqlMod(a, n) == IF a >= 0 THEN a % n ELSE 0 - ((0 - a) % n)

Abs(v) == IF v >= 0 THEN v ELSE 0 - v

\* a plausible slip: "or" instead of "and"
AIRBORNE_WHERE_or(row) == (row.on_ground = 0) \/ (row.ground_speed >= 20)

AIRBORNE_WHERE(row) == (row.on_ground = 0) /\ (row.ground_speed >= 20)

\* a plausible slip: the heading is not folded onto the runway axis
TOFF_LAN_WHERE_mod360(row) ==
    /\ AIRBORNE_WHERE(row)
    /\ Abs(10 * SqlMod(row.heading, 360) - RWY_HDG) < 50
    /\ row.altitude < 10000

TOFF_LAN_WHERE(row) ==
    /\ AIRBORNE_WHERE(row)
    /\ Abs(10 * SqlMod(row.heading, 180) - RWY_HDG) < 50
    /\ row.altitude < 10000

\* the table's rows in rowid order, each with its primary key
TableRows(table) ==
    [i \in 1..Len(table) |-> [id |-> i] @@ table[i]]

\* db_query(conn, "select *", where=TOFF_LAN_WHERE)
db_query(table) == SelectSeq(TableRows(table), TOFF_LAN_WHERE)

-----------------------------------------------------------------------------
(* Geometry Engine *)

\* azimuth of the runway on the model plane, whole degrees
AZIMUTH == 143

LON == 0
LAT == 0
LONG_AXIS == 15000
SHORT_AXIS == 400

\* 5 * sin(az) and 5 * cos(az) for the runway bearing and its quarter turns,
\* and for the other bearings whose sine and cosine are fifths: the bearing
\* of the 4-3-5 triangle (36.87 degrees, written 37) and the compass points
Sin5(az) ==
    CASE az % 360 = 143 -> 3
      [] az % 360 = 233 -> -4
      [] az % 360 = 323 -> -3
      [] az % 360 = 53  -> 4
      [] az % 360 = 37  -> 3
      [] az % 360 = 127 -> 4
      [] az % 360 = 217 -> -3
      [] az % 360 = 307 -> -4
      [] az % 360 = 0   -> 0
      [] az % 360 = 90  -> 5
      [] az % 360 = 180 -> 0
      [] az % 360 = 270 -> -5

Cos5(az) ==
    CASE az % 360 = 143 -> -4
      [] az % 360 = 233 -> -3
      [] az % 360 = 323 -> 4
      [] az % 360 = 53  -> 3
      [] az % 360 = 37  -> 4
      [] az % 360 = 127 -> -3
      [] az % 360 = 217 -> -4
      [] az % 360 = 307 -> 3
      [] az % 360 = 0   -> 5
      [] az % 360 = 90  -> 0
      [] az % 360 = 180 -> -5
      [] az % 360 = 270 -> 0

\* Geod.fwd(lons, lats, az, dist)[:2]
fwd(lon, lat, az, dist) ==
    <<lon + (dist * Sin5(az)) \div 5, lat + (dist * Cos5(az)) \div 5>>

\* a plausible slip: the two south-east corners exchanged
airport_zones_crossed(lon, lat, azimuth, long_axis, short_axis) ==
    LET opp_azimuth == (azimuth + 180) % 360
        nw0 == fwd(lon, lat, opp_azimuth, long_axis)
        nw1 == fwd(nw0[1], nw0[2], opp_azimuth + 90, short_axis)
        nw2 == fwd(nw0[1], nw0[2], opp_azimuth - 90, short_axis)
        se0 == fwd(lon, lat, azimuth, long_axis)
        se1 == fwd(se0[1], se0[2], azimuth + 90, short_axis)
        se2 == fwd(se0[1], se0[2], azimuth - 90, short_axis)
    IN  <<nw1, nw2, se2, se1>>

\* airport_zones(lon, lat, azimuth, long_axis, short_axis)
airport_zones_of(lon, lat, azimuth, long_axis, short_axis) ==
    LET opp_azimuth == (azimuth + 180) % 360
        nw0 == fwd(lon, lat, opp_azimuth, long_axis)
        nw1 == fwd(nw0[1], nw0[2], opp_azimuth + 90, short_axis)
        nw2 == fwd(nw0[1], nw0[2], opp_azimuth - 90, short_axis)
        se0 == fwd(lon, lat, azimuth, long_axis)
        se1 == fwd(se0[1], se0[2], azimuth + 90, short_axis)
        se2 == fwd(se0[1], se0[2], azimuth - 90, short_axis)
    IN  <<nw1, nw2, se1, se2>>

\* airport_zones() with its default arguments
airport_zones == airport_zones_of(LON, LAT, AZIMUTH, LONG_AXIS, SHORT_AXIS)

\* the ring's edges: vertex i to the next vertex, the last back to the first
EdgeEnd(poly, i) == poly[(i % Len(poly)) + 1]

Cross(a, b, p) == (b[1] - a[1]) * (p[2] - a[2]) - (b[2] - a[2]) * (p[1] - a[1])

Min2(u, v) == IF u <= v THEN u ELSE v
Max2(u, v) == IF u >= v THEN u ELSE v

OnSegment(p, a, b) ==
    /\ Cross(a, b, p) = 0
    /\ Min2(a[1], b[1]) <= p[1] /\ p[1] <= Max2(a[1], b[1])
    /\ Min2(a[2], b[2]) <= p[2] /\ p[2] <= Max2(a[2], b[2])

OnBoundary(p, poly) ==
    \E i \in 1..Len(poly) : OnSegment(p, poly[i], EdgeEnd(poly, i))

\* the ray from p towards +x crosses the edge a-b
RayCrosses(p, a, b) ==
    /\ (a[2] > p[2]) # (b[2] > p[2])
    /\ IF b[2] > a[2]
         THEN (p[1] - a[1]) * (b[2] - a[2]) < (p[2] - a[2]) * (b[1] - a[1])
         ELSE (p[1] - a[1]) * (b[2] - a[2]) > (p[2] - a[2]) * (b[1] - a[1])

Crossings(p, poly) ==
    Cardinality({i \in 1..Len(poly) : RayCrosses(p, poly[i], EdgeEnd(poly, i))})

\* the point is in the polygon or on its ring (shapely's covered_by)
covered_by(p, poly) == OnBoundary(p, poly) \/ Crossings(p, poly) % 2 = 1

\* shapely's point.within(polygon): the point lies in the polygon's interior;
\* a point on the ring is not within
within(p, poly) == ~OnBoundary(p, poly) /\ Crossings(p, poly) % 2 = 1

Point(row) == <<row.longitude, row.latitude>>

\* gdf = gdf[gdf.geometry.within(zone)]
ZoneFilter(frame) ==
    LET zone == airport_zones
        InZone(row) == within(Point(row), zone)
    IN  SelectSeq(frame, InZone)

-----------------------------------------------------------------------------
(* Track Segmenter *)

\* pd.to_datetime(time, unit="s", utc=True).dt.tz_convert("Europe/Paris"):
\* the same instant, carried with the zone it is displayed in
to_datetime(time) == [epoch |-> time, tz |-> "Europe/Paris"]

\* gdf.groupby("fr_id")[["time"]].diff().fillna(0): the difference to the
\* previous row of the same aircraft in row order, 0 for its first row
ping_delta_t(frame, i) ==
    LET before == {j \in 1..(i - 1) : frame[j].fr_id = frame[i].fr_id}
    IN  IF before = {} THEN 0
        ELSE LET prev == CHOOSE j \in before : \A k \in before : k <= j
             IN  frame[i].time - frame[prev].time

\* (gdf["ping_delta_t"] > 3 * 60).cumsum(): a running count over ALL rows
subflight_nb(frame, i) ==
    Cardinality({j \in 1..i : ping_delta_t(frame, j) > 3 * 60})

\* the key without the aircraft identifier
subflight_id_nb_only(fr_id, nb) == ToString(nb)

\* f"{x['fr_id']}_{x['subflight_nb']}"
subflight_id(fr_id, nb) == fr_id \o "_" \o ToString(nb)

Segment(frame) ==
    [i \in 1..Len(frame) |->
        [datetime |-> to_datetime(frame[i].time),
         ping_delta_t |-> ping_delta_t(frame, i),
         subflight_nb |-> subflight_nb(frame, i),
         subflight_id |-> subflight_id(frame[i].fr_id, subflight_nb(frame, i))]
        @@ frame[i]]

\* the time deltas taken before the zone filter is applied
segmented_pings_filter_late(table) == ZoneFilter(Segment(db_query(table)))

\* aggregate_takeoffs_landings, lines 79-88: query, zone filter, segmentation
segmented_pings(table) == Segment(ZoneFilter(db_query(table)))

-----------------------------------------------------------------------------
(* Event Aggregator *)

\* the reference tables written by generate_aircraft_airlines_airports_json.py:
\* airlines = {ICAO: name}
AIRLINES == [EZY |-> "easyJet", VOE |-> "Volotea"]

\* airports[iata] = dict(name, latitude, longitude, country); coordinates in
\* whole degrees
AIRPORTS ==
    [TLS |-> [name |-> "Toulouse-Blagnac", latitude |-> 44,
              longitude |-> 1, country |-> "France"],
     ORY |-> [name |-> "Paris-Orly", latitude |-> 49,
              longitude |-> 2, country |-> "France"]]

\* aircraft[icao] = {"model", "type"}
AIRCRAFT == [A320 |-> [model |-> "Airbus A320", type |-> "LandPlane"]]

\* the dict {}
EmptyDict == [k \in {} |-> ""]

\* dict.get(key, default)
get(dict, key, default) == IF key \in DOMAIN dict THEN dict[key] ELSE default

\* the rows of one group, in the frame's row order
Group(frame, key) ==
    LET InGroup(row) == row.subflight_id = key
    IN  SelectSeq(frame, InGroup)

Column(group, column) == [i \in 1..Len(group) |-> group[i][column]]

\* agg "first": the value of the group's first row (no column holds a null)
first(values) == values[1]

RECURSIVE Sum(_)
Sum(values) == IF values = <<>> THEN 0 ELSE Head(values) + Sum(Tail(values))

\* agg "mean": the sum over the count, kept as a fraction
mean(values) == [num |-> Sum(values), den |-> Len(values)]

\* Counter(headings): the distinct values with their counts, in the order in
\* which they were first met
RECURSIVE Counter(_)
Counter(values) ==
    IF values = <<>> THEN <<>>
    ELSE LET seen == Counter(SubSeq(values, 1, Len(values) - 1))
             v == values[Len(values)]
         IN  IF \E k \in 1..Len(seen) : seen[k].key = v
             THEN [k \in 1..Len(seen) |->
                      IF seen[k].key = v
                      THEN [key |-> v, count |-> seen[k].count + 1]
                      ELSE seen[k]]
             ELSE Append(seen, [key |-> v, count |-> 1])

\* a plausible slip: among equal counts the later item wins
RECURSIVE max_count_last(_, _)
max_count_last(items, best) ==
    IF items = <<>> THEN best
    ELSE max_count_last(Tail(items),
                        IF Head(items).count >= best.count THEN Head(items)
                        ELSE best)

\* max(items, key=count), the scan of most_common(1): an item replaces the
\* best one so far only when its count is strictly greater
RECURSIVE max_count(_, _)
max_count(items, best) ==
    IF items = <<>> THEN best
    ELSE max_count(Tail(items),
                   IF Head(items).count > best.count THEN Head(items)
                   ELSE best)

\* Counter(headings).most_common(1)[0][0]
most_common(values) ==
    LET items == Counter(values)
    IN  max_count(Tail(items), Head(items)).key

\* gdf.groupby("subflight_id").agg(agg_dict) for one group
agg(group) ==
    [subflight_id |-> first(Column(group, "subflight_id")),
     fr_id |-> first(Column(group, "fr_id")),
     aircraft_code |-> first(Column(group, "aircraft_code")),
     registration |-> first(Column(group, "registration")),
     time |-> first(Column(group, "time")),
     origin_airport_iata |-> first(Column(group, "origin_airport_iata")),
     destination_airport_iata |->
         first(Column(group, "destination_airport_iata")),
     number |-> first(Column(group, "number")),
     airline_iata |-> first(Column(group, "airline_iata")),
     callsign |-> first(Column(group, "callsign")),
     airline_icao |-> first(Column(group, "airline_icao")),
     datetime |-> first(Column(group, "datetime")),
     vertical_speed |-> mean(Column(group, "vertical_speed")),
     heading |-> most_common(Column(group, "heading"))]

\* a plausible slip: a mean of exactly 0 counted as a landing
rwy_event_positive(x) == IF x.num > 0 THEN "takeoff" ELSE "landing"

\* "takeoff" if x >= 0 else "landing"; the count of a mean is positive
rwy_event(x) == IF x.num >= 0 THEN "takeoff" ELSE "landing"

\* a plausible slip: the midpoint of the two runway headings
direction_threshold_midpoint == (RWY_HDG + (RWY_HDG + 1800)) \div 2

\* (RWY_HDG + 180) / 2, in tenths of a degree
direction_threshold == (RWY_HDG + 1800) \div 2

\* a plausible slip: the sum is not halved
rwy_direction_not_halved(heading) ==
    IF 10 * heading <= RWY_HDG + 1800 THEN "14" ELSE "32"

\* a plausible slip: the heading compared with the runway heading itself
rwy_direction_rwy_hdg(heading) == IF 10 * heading <= RWY_HDG THEN "14" ELSE "32"

\* "14" if heading <= (RWY_HDG + 180) / 2 else "32"
rwy_direction(heading) ==
    IF 10 * heading <= direction_threshold THEN "14" ELSE "32"

\* f"{AIRLINES.get(x, '')} ({x})"
airline(x) == get(AIRLINES, x, "") \o " (" \o x \o ")"

\* f"{AIRCRAFT.get(x, {}).get('model', '')} ({x})"
aircraft(x) == get(get(AIRCRAFT, x, EmptyDict), "model", "") \o " (" \o x \o ")"

\* AIRCRAFT.get(x, {}).get("type", "Unknown")
aircraft_type(x) == get(get(AIRCRAFT, x, EmptyDict), "type", "Unknown")

_get_airport_name(airport_iata) ==
    LET iata == IF airport_iata = "" THEN "N/A" ELSE airport_iata
    IN  get(AIRPORTS, iata, [name |-> ""]).name \o " (" \o iata \o ")"

\* a plausible slip: the two cases exchanged
_get_connecting_airport_swapped(row) ==
    CASE row.rwy_event = "landing" -> row.destination_airport
      [] row.rwy_event = "takeoff" -> row.origin_airport
      [] OTHER -> "N/A"

_get_connecting_airport(row) ==
    CASE row.rwy_event = "landing" -> row.origin_airport
      [] row.rwy_event = "takeoff" -> row.destination_airport
      [] OTHER -> "N/A"

\* lines 108-134: the derived columns of one event
Enrich(event) ==
    LET derived ==
            [rwy_event |-> rwy_event(event.vertical_speed),
             rwy_direction |-> rwy_direction(event.heading),
             airline |-> airline(event.airline_icao),
             aircraft |-> aircraft(event.aircraft_code),
             aircraft_type |-> aircraft_type(event.aircraft_code),
             origin_airport |-> _get_airport_name(event.origin_airport_iata),
             destination_airport |->
                 _get_airport_name(event.destination_airport_iata)]
            @@ event
    IN  [connecting_airport |-> _get_connecting_airport(derived)] @@ derived

\* the frame toff_land of aggregate_takeoffs_landings: one event per
\* sub-flight key, with every column it has before the final selection (the
\* local hour of the day is not carried)
aggregate_takeoffs_landings(table) ==
    LET frame == segmented_pings(table)
        keys == {frame[i].subflight_id : i \in 1..Len(frame)}
    IN  {Enrich(agg(Group(frame, key))) : key \in keys}

-----------------------------------------------------------------------------
(* Consumers of the events *)

\* x[-4:-1]
airport_code(x) ==
    LET n == Len(x)
    IN  SubSeq(x, (IF n >= 4 THEN n - 4 ELSE 0) + 1, n - 1)

\* map(airports), lines 166-172: the events with a connecting airport are
\* grouped by it and each group's code is looked up with AIRPORTS[x]
map(airports) ==
    LET data == {e.connecting_airport : e \in airports} \ {" (N/A)"}
    IN  IF \A x \in data : airport_code(x) \in DOMAIN AIRPORTS
        THEN "map"
        ELSE "KeyError"

\* events["datetime"].min() and .max(): NaT over no event
NaT == [epoch |-> -1, tz |-> "NaT"]

datetime_min(events) ==
    IF events = {} THEN NaT
    ELSE CHOOSE d \in {e.datetime : e \in events} :
             \A e \in events : d.epoch <= e.datetime.epoch

datetime_max(events) ==
    IF events = {} THEN NaT
    ELSE CHOOSE d \in {e.datetime : e \in events} :
             \A e \in events : d.epoch >= e.datetime.epoch

\* seconds in a day
DAY == 86400

\* timedelta(minutes=30), in seconds
HALF_HOUR == 1800

\* Europe/Paris is one hour ahead of UTC (winter time)
PARIS_UTC_OFFSET == 3600

\* the times of day at which the archive has an observation: 00:00 and 23:30
ObsOffsets == {0, 84600}

\* instants inside the wind functions are seconds since the epoch; a negative
\* number stands for NaT, and NaT minus a timedelta is NaT
IsNaT(t) == t < 0

\* start.replace(hour=0, minute=0, second=0, microsecond=0, tzinfo=utc): the
\* datetime's calendar day in its own zone, at midnight UTC; NaT stays NaT
midnight(d) ==
    IF d = NaT THEN -1
    ELSE ((d.epoch + PARIS_UTC_OFFSET) \div DAY) * DAY

\* the cache file data/lfbo_wind.csv: absent, or its observation times
NoFile == [exists |-> FALSE, rows |-> {}]

\* _scrape_wind_data(start, end): the request carries the year, month and day
\* of start and of end, which are nan for NaT; the archive answers a request
\* whose dates are not numbers with an error status, which pd.read_csv
\* raises.  Otherwise it returns the observations from the day of start up
\* to, and without, the day of end.
_scrape_wind_data(start, end) ==
    IF IsNaT(start) \/ IsNaT(end)
    THEN [error |-> TRUE, rows |-> {}]
    ELSE [error |-> FALSE,
          rows |-> {d * DAY + o :
                       d \in (start \div DAY)..((end \div DAY) - 1),
                       o \in ObsOffsets}]

\* pd.concat(scraped).drop_duplicates(keep=False): the rows that occur in
\* exactly one of the frames; every copy of a duplicated row is dropped
drop_duplicates(frames) ==
    {t \in UNION {frames[i] : i \in 1..Len(frames)} :
        Cardinality({i \in 1..Len(frames) : t \in frames[i]}) = 1}

\* _get_wind_data(start, end) on the cache file csv: the error flag, the
\* cache file afterwards and the data returned.  Every comparison with NaT
\* is false.
_get_wind_data(start, end, csv) ==
    LET start0 == midnight(start)
        end0 == midnight(end)
        cached == csv.rows
        c_start ==
            IF cached = {} THEN -1
            ELSE CHOOSE t \in cached : \A u \in cached : t <= u
        c_end ==
            IF cached = {} THEN -1
            ELSE CHOOSE t \in cached : \A u \in cached : t >= u
        end30 == IF IsNaT(end0) THEN -1 ELSE end0 - HALF_HOUR
        Comparable(a, b) == ~IsNaT(a) /\ ~IsNaT(b)
        covered ==
            /\ Comparable(start0, c_start) /\ start0 >= c_start
            /\ Comparable(end30, c_end) /\ end30 <= c_end
        before ==
            IF Comparable(start0, c_start) /\ start0 < c_start
            THEN <<_scrape_wind_data(start0, c_start)>> ELSE <<>>
        after ==
            IF Comparable(end30, c_end) /\ end30 > c_end
            THEN <<_scrape_wind_data(c_end, end0)>> ELSE <<>>
        scraped ==
            IF csv.exists
            THEN before \o after \o <<[error |-> FALSE, rows |-> cached]>>
            ELSE <<_scrape_wind_data(start0, end0)>>
        all == drop_duplicates([i \in 1..Len(scraped) |-> scraped[i].rows])
        requested ==
            IF csv.exists THEN before \o after ELSE scraped
        fetched_rows ==
            UNION {requested[i].rows : i \in 1..Len(requested)}
    IN  IF csv.exists /\ covered
        THEN [error |-> FALSE, csv |-> csv, all |-> cached, fetched |-> {}]
        ELSE IF \E i \in 1..Len(scraped) : scraped[i].error
        THEN [error |-> TRUE, csv |-> csv, all |-> {}, fetched |-> {}]
        ELSE [error |-> FALSE, csv |-> [exists |-> TRUE, rows |-> all],
              all |-> all, fetched |-> fetched_rows]

\* pd.merge_asof(events.sort_values(by="datetime"), wind, left_on="datetime",
\* right_on="datetime2"), whose direction defaults to "backward": every event
\* gets the last observation that is not later than it, or none
merge_asof(events, wind) ==
    [i \in 1..Len(events) |->
        LET before == {w \in wind : w <= events[i].datetime}
        IN  IF before = {}
            THEN [datetime |-> events[i].datetime, matched |-> FALSE,
                  datetime2 |-> 0]
            ELSE [datetime |-> events[i].datetime, matched |-> TRUE,
                  datetime2 |-> CHOOSE w \in before : \A v \in before : v <= w]]

-----------------------------------------------------------------------------
(* Inputs *)

FrIds == {"3a1f", "3a20"}

Times == {1000, 1180, 1181, 1185, 1190}

\* one flight of the feed answer; the columns the filter, the zone test and
\* the segmenter read are the parameters
Ping(f, t, g, s, h, a, p) ==
    [fr_id |-> f, time |-> t, on_ground |-> g, ground_speed |-> s,
     heading |-> h, altitude |-> a, longitude |-> p[1], latitude |-> p[2],
     vertical_speed |-> 0, icao_24bit |-> "39BDA1", squawk |-> "1000",
     aircraft_code |-> "A320", registration |-> "F-HBNA",
     origin_airport_iata |-> "ORY", destination_airport_iata |-> "TLS",
     number |-> "U24027", airline_iata |-> "U2", callsign |-> "EZY4027",
     airline_icao |-> "EZY"]

\* positions: on the runway axis, on the zone's long edge, on a corner,
\* 5 m beyond the long edge
PosInside == <<0, 0>>
PosEdge == <<-320, -240>>
PosCorner == <<-8680, 12240>>
PosOutside == <<-324, -243>>

\* pings that pass the filter and lie in the zone
GoodPings == {Ping(f, t, 0, 20, 143, 9999, PosInside) : f \in FrIds, t \in Times}

\* pings of the pipeline specification: a good ping, or one defect each
PipelineTimes == {1000, 1181}

PipelinePings ==
    UNION {{Ping(f, t, 0, 20, 143, 9999, PosInside),
            Ping(f, t, 1, 20, 143, 9999, PosInside),
            Ping(f, t, 0, 19, 143, 9999, PosInside),
            Ping(f, t, 0, 20, 143, 9999, PosOutside),
            Ping(f, t, 0, 20, 143, 9999, PosEdge)} :
           f \in FrIds, t \in PipelineTimes}

\* pings of the filter specification: every combination of the columns the
\* filter and the zone test read
FilterPings ==
    {Ping("3a1f", 1000, g, s, h, a, p) :
        g \in {0, 1}, s \in {0, 19, 20, 21}, h \in 0..360,
        a \in {9999, 10000}, p \in {PosInside, PosEdge, PosCorner, PosOutside}}

\* pings of the aggregation specification: one aircraft, good pings whose
\* heading and vertical speed vary
AggTimes == {1000, 1181}

AggPings ==
    {[Ping("3a1f", t, 0, 20, hv[1], 9999, PosInside)
         EXCEPT !.vertical_speed = hv[2]] :
        t \in AggTimes,
        hv \in {<<140, 1>>, <<142, 1>>, <<320, 1>>, <<142, -1>>, <<142, 0>>}}

\* pings of the pages specification: the codes are known to the reference
\* tables, unknown to them, or empty
EnrichPings ==
    {[Ping("3a1f", 1000, 0, 20, 143, 9999, p)
         EXCEPT !.vertical_speed = v, !.airline_icao = al, !.aircraft_code = ac,
                !.origin_airport_iata = o, !.destination_airport_iata = d] :
        p \in {PosInside, PosOutside}, v \in {-1, 1}, al \in {"EZY", "AFR"},
        ac \in {"A320", "ZZZZ"}, o \in {"ORY", "XYZ", ""},
        d \in {"TLS", "XYZ", ""}}

\* heading lists of the direction specification
HeadingLists == {<<h>> : h \in 0..360} \cup {<<140, 142, 142, 320>>}

\* arguments of the zone specification: the bearings the model plane has
\* exact sines for, three lengths and three widths
ZoneArgs ==
    [azimuth : {0, 37, 53, 90, 127, 143, 180, 217, 233, 270, 307, 323},
     long_axis : {5000, 10000, 15000},
     short_axis : {200, 400, 1000}]

\* arguments of the wind join: one event at a multiple of 5 minutes and
\* observations on the half hours, times in minutes
MergeArgs ==
    [events : {<<[datetime |-> 5 * k]>> : k \in 0..13},
     wind : SUBSET {0, 30, 60}]

\* event rows of the connecting-airport specification
ConnectRows ==
    [rwy_event : {"takeoff", "landing", "go-around", ""},
     origin_airport : {_get_airport_name(c) : c \in {"ORY", "TLS", "XYZ", ""}},
     destination_airport :
         {_get_airport_name(c) : c \in {"ORY", "TLS", "XYZ", ""}}]

\* the columns of the "flights" table besides the primary key; none is
\* Optional, so each is NOT NULL
Columns ==
    {"latitude", "longitude", "fr_id", "icao_24bit", "heading", "altitude",
     "ground_speed", "squawk", "aircraft_code", "registration", "time",
     "origin_airport_iata", "destination_airport_iata", "number",
     "airline_iata", "on_ground", "vertical_speed", "callsign", "airline_icao"}

WellFormed(flight) == Columns \subseteq DOMAIN flight

\* a flight of the feed answer without one of its fields
Drop(flight, column) == [c \in DOMAIN flight \ {column} |-> flight[c]]

\* pings of the ingestion specification: a good ping, or one without latitude
ScrapePings ==
    UNION {{Ping(f, t, 0, 20, 143, 9999, PosInside),
            Drop(Ping(f, t, 0, 20, 143, 9999, PosInside), "latitude")} :
           f \in FrIds, t \in PipelineTimes}

\* one feed answer: at most one ping per flight
Feeds(pings) ==
    {<<>>} \cup {<<p>> : p \in pings}
           \cup {s \in {<<p, q>> : p \in pings, q \in pings} : s[1].fr_id # s[2].fr_id}

-----------------------------------------------------------------------------
(* Operations *)

\* periodicity = 30, in seconds
PERIODICITY == 30

\* a plausible slip: a fixed sleep of one period, which drifts
sleep_duration_fixed(now, starttime) == PERIODICITY

\* the argument of time.sleep(): periodicity - ((time.monotonic() -
\* starttime) % periodicity)
sleep_duration(now, starttime) ==
    PERIODICITY - ((now - starttime) % PERIODICITY)

\* the polling loop has not run an iteration; starttime = time.monotonic()
TimerAt(starttime) ==
    [starttime |-> starttime, begin |-> starttime, end_main |-> starttime,
     sleep |-> 0, now |-> starttime, iterations |-> 0]

\* f"{flightid:x}".lower(): the flight id in lower-case hexadecimal
HexDigit(k) == SubSeq("0123456789abcdef", k + 1, k + 1)

RECURSIVE Hex(_)
Hex(n) == IF n < 16 THEN HexDigit(n) ELSE Hex(n \div 16) \o HexDigit(n % 16)

\* the rows of flights_to_dl.csv: 0x3a1f, 0x3b2e and 0x3c4d
FlightsToDl == <<14879, 15150, 15437>>

\* the state of the playback download: the run of async_get_flights and its
\* next row, the names in the cache's metadata directory, those at the start
\* of the run, the flights requested in the run, its HTTP errors other than
\* 429, and the number of 429 answers of the service so far
NoPlayback ==
    [run |-> 0, row |-> Len(FlightsToDl) + 1, cached |-> {},
     start_cached |-> {}, requested |-> <<>>, errors |-> 0, rejects |-> 0]

\* a plausible slip: the metadata file is not looked at before the request
get_flight_playback_no_skip(pb, flightid, response) ==
    LET asked == [pb EXCEPT !.requested = Append(@, flightid)]
    IN  IF response = "ok"
        THEN [asked EXCEPT !.cached = @ \cup {Hex(flightid)}]
        ELSE IF response = "429"
        THEN [asked EXCEPT !.rejects = @ + 1]
        ELSE [asked EXCEPT !.errors = @ + 1]

\* get_flight_playback(client, flightid, timestamp): a flight whose metadata
\* file exists is skipped without a request.  Otherwise the playback is
\* requested once: a success writes the flight's files to the cache; on HTTP
\* 429 the function sleeps for retry-after seconds and returns; any other
\* HTTP error is logged.
get_flight_playback(pb, flightid, response) ==
    LET asked == [pb EXCEPT !.requested = Append(@, flightid)]
    IN  IF Hex(flightid) \in pb.cached
        THEN pb
        ELSE IF response = "ok"
        THEN [asked EXCEPT !.cached = @ \cup {Hex(flightid)}]
        ELSE IF response = "429"
        THEN [asked EXCEPT !.rejects = @ + 1]
        ELSE [asked EXCEPT !.errors = @ + 1]

\* no day of pings was requested: the next day, the day files written, the
\* snapshots logged as failed, the outcomes of the snapshot queries of every
\* day asked for, and whether async_get_pings is still running
NoPings == [day |-> 1, files |-> <<>>, log |-> {}, snapshots |-> <<>>,
            status |-> "running"]

\* the snapshots queried before the first one whose query raises something
\* other than AssertionError; all of them when none does
Queried(outcomes) ==
    {i \in 1..Len(outcomes) : \A j \in 1..i : outcomes[j] # "Exception"}

\* the snapshots the except clause logs: those queried that raised
\* AssertionError
failed_snapshots(day, outcomes) ==
    {<<day, i>> : i \in {k \in Queried(outcomes) :
                             outcomes[k] = "AssertionError"}}

\* all_records when the loop over the snapshots is left: the records of the
\* queried snapshots that succeeded
all_records(day, outcomes) ==
    {<<day, i>> : i \in {k \in Queried(outcomes) : outcomes[k] = "ok"}}

\* the parts of the state outside the specification at hand
InitRest ==
    /\ nb_flights = 0
    /\ timer = TimerAt(0)
    /\ wind_csv = NoFile
    /\ playback = NoPlayback
    /\ day_pings = NoPings

Init ==
    /\ db = <<>>
    /\ df = <<>>
    /\ gdf = <<>>
    /\ ran = FALSE
    /\ toff_land = {}
    /\ page = "idle"
    /\ scraper = "running"
    /\ InitRest
    /\ fetched = <<>>
    /\ arg = <<>>
    /\ out = <<>>

\* scrape.main() inside the polling loop: one row per flight of the feed
\* answer is added and all are committed together.  A row without a required
\* column fails the commit: nothing of the batch is stored, and the exception
\* leaves main() and ends the loop, which does not catch it.
ScrapeMain(flights, limit) ==
    /\ ~ran
    /\ scraper = "running"
    /\ Len(db) + Len(flights) <= limit
    /\ IF \A i \in 1..Len(flights) : WellFormed(flights[i])
       THEN db' = db \o flights /\ scraper' = scraper
            /\ nb_flights' = Len(flights)
       ELSE db' = db /\ scraper' = "crashed" /\ nb_flights' = nb_flights
    /\ UNCHANGED <<df, gdf, ran, toff_land, page, arg, out, wind_csv,
                   playback, day_pings>>

\* the frames of aggregate_takeoffs_landings()
Aggregated ==
    /\ df' = db_query(db)
    /\ gdf' = segmented_pings(db)
    /\ toff_land' = aggregate_takeoffs_landings(db)
    /\ ran' = TRUE

\* aggregate_takeoffs_landings()
Aggregate ==
    /\ ~ran
    /\ Aggregated
    /\ UNCHANGED <<db, page, scraper, fetched, arg, out, nb_flights, timer,
                   wind_csv, playback, day_pings>>

Scrape ==
    \E flights \in Feeds(PipelinePings) :
        ScrapeMain(flights, MaxRows) /\ UNCHANGED <<fetched, timer>>

Next == Scrape \/ Aggregate

Spec == Init /\ [][Next]_vars

\* segmentation: every ping passes the filter and lies in the zone
ScrapeGood ==
    \E flights \in Feeds(GoodPings) :
        ScrapeMain(flights, MaxSegRows) /\ UNCHANGED <<fetched, timer>>

NextSeg == ScrapeGood \/ Aggregate

SpecSeg == Init /\ [][NextSeg]_vars

\* filter and zone test on a table of one ping
InitFilter ==
    /\ db \in {<<p>> : p \in FilterPings}
    /\ df = <<>>
    /\ gdf = <<>>
    /\ ran = FALSE
    /\ toff_land = {}
    /\ page = "idle"
    /\ scraper = "running"
    /\ InitRest
    /\ fetched = <<>>
    /\ arg = <<>>
    /\ out = <<>>

NextFilter == Aggregate

SpecFilter == InitFilter /\ [][NextFilter]_vars

\* aggregation: one aircraft's good pings
ScrapeAgg ==
    \E flights \in Feeds(AggPings) :
        ScrapeMain(flights, MaxAggRows) /\ UNCHANGED <<fetched, timer>>

NextAgg == ScrapeAgg \/ Aggregate

SpecAgg == Init /\ [][NextAgg]_vars

\* ingestion: the feed answer of every iteration is remembered in fetched
ScrapeBatch ==
    \E flights \in Feeds(ScrapePings) :
        ScrapeMain(flights, MaxScrapeRows) /\ fetched' = flights
        /\ UNCHANGED timer

NextScrape == ScrapeBatch

SpecScrape == Init /\ [][NextScrape]_vars

\* the first and last event datetimes of a call of the page: around noon of
\* two days in order, or NaT for no event
WindArgs ==
    {<<NaT, NaT>>}
        \cup {r \in {<<to_datetime(d1 * DAY + 40000),
                        to_datetime(d2 * DAY + 45000)>> :
                          d1 \in 0..MaxWindDay, d2 \in 0..MaxWindDay} :
                 r[1].epoch < r[2].epoch}

\* a visit of the page "Runway direction": _get_wind_data() for the range of
\* the events on display; arg keeps the range and out what came back
GetWind ==
    \E range \in WindArgs :
        LET wind == _get_wind_data(range[1], range[2], wind_csv)
        IN  /\ wind_csv' = wind.csv
            /\ arg' = range
            /\ out' = wind
            /\ page' = IF wind.error THEN "HTTPError" ELSE "wind"
            /\ UNCHANGED <<db, df, gdf, ran, toff_land, scraper, fetched,
                           nb_flights, timer, playback, day_pings>>

InitWind ==
    /\ db = <<>>
    /\ df = <<>>
    /\ gdf = <<>>
    /\ ran = FALSE
    /\ toff_land = {}
    /\ page = "idle"
    /\ scraper = "running"
    /\ InitRest
    /\ fetched = <<>>
    /\ arg = <<NaT, NaT>>
    /\ out = [error |-> FALSE, csv |-> NoFile, all |-> {}, fetched |-> {}]

NextWind == GetWind

SpecWind == InitWind /\ [][NextWind]_vars

\* what the playback service may answer: it accepts, fails with another HTTP
\* error, or rejects with 429, which it does MaxRejects times at most
Responses ==
    {"ok", "error"} \cup (IF playback.rejects < MaxRejects THEN {"429"} ELSE {})

\* async_get_flights() is started: flights_to_dl.csv is read
StartRun ==
    /\ playback.run < MaxRuns
    /\ playback.row = Len(FlightsToDl) + 1
    /\ playback' = [playback EXCEPT !.run = @ + 1, !.row = 1,
                                    !.start_cached = playback.cached,
                                    !.requested = <<>>, !.errors = 0]
    /\ UNCHANGED <<db, df, gdf, ran, toff_land, page, scraper, fetched, arg,
                   out, nb_flights, timer, wind_csv, day_pings>>

\* one turn of the loop over the rows: get_flight_playback() for the row,
\* then the next row
GetFlightPlayback ==
    /\ playback.run > 0
    /\ playback.row <= Len(FlightsToDl)
    /\ \E response \in Responses :
          playback' = [get_flight_playback(playback, FlightsToDl[playback.row],
                                           response)
                          EXCEPT !.row = @ + 1]
    /\ UNCHANGED <<db, df, gdf, ran, toff_land, page, scraper, fetched, arg,
                   out, nb_flights, timer, wind_csv, day_pings>>

\* the cache of playbacks is empty or holds some of the flights
InitHistory ==
    /\ db = <<>>
    /\ df = <<>>
    /\ gdf = <<>>
    /\ ran = FALSE
    /\ toff_land = {}
    /\ page = "idle"
    /\ scraper = "running"
    /\ nb_flights = 0
    /\ timer = TimerAt(0)
    /\ wind_csv = NoFile
    /\ \E have \in SUBSET {Hex(FlightsToDl[i]) : i \in 1..Len(FlightsToDl)} :
          playback = [NoPlayback EXCEPT !.cached = have]
    /\ day_pings = NoPings
    /\ fetched = <<>>
    /\ arg = <<>>
    /\ out = <<>>

NextHistory == StartRun \/ GetFlightPlayback

SpecHistory == InitHistory /\ [][NextHistory]_vars

\* a run that was started goes on to its last row: every await of the loop
\* returns, the sleep after a 429 included
SpecHistoryFair == SpecHistory /\ WF_vars(GetFlightPlayback)

\* the outcome of one snapshot query: records, an AssertionError of the
\* response parser, or another exception such as a transport error of the
\* HTTP client
Outcomes == {"ok", "AssertionError", "Exception"}

\* one turn of async_get_pings: catch_pings_of_day() for the next day.  The
\* snapshot queries are made in order; an AssertionError is logged and the
\* loop goes on; any other exception leaves the loop, the function and
\* async_get_pings, before the day's file is written.
CatchPingsOfDay ==
    /\ day_pings.status = "running"
    /\ day_pings.day <= MaxDays
    /\ \E outcomes \in [1..MaxSnapshots -> Outcomes] :
          LET day == day_pings.day
              raised == \E i \in 1..MaxSnapshots : outcomes[i] = "Exception"
          IN  day_pings' =
                  [day |-> IF raised THEN day ELSE day + 1,
                   files |-> IF raised THEN day_pings.files
                             ELSE Append(day_pings.files,
                                         [day |-> day,
                                          records |-> all_records(day, outcomes)]),
                   log |-> day_pings.log \cup failed_snapshots(day, outcomes),
                   snapshots |-> Append(day_pings.snapshots, outcomes),
                   status |-> IF raised THEN "crashed" ELSE "running"]
    /\ UNCHANGED <<db, df, gdf, ran, toff_land, page, scraper, fetched, arg,
                   out, nb_flights, timer, wind_csv, playback>>

NextPings == CatchPingsOfDay

SpecPings == Init /\ [][NextPings]_vars

\* the values of time.monotonic() when the loop starts
StartTimes == {0, 7, 1000}

\* the seconds main() and the logging take in one iteration
Durations == {0, 1, 29, 30, 31, 59, 60, 75}

\* feed answers of the polling loop
LoopPings ==
    {Ping("3a1f", 1000, 0, 20, 143, 9999, PosInside),
     Drop(Ping("3b2e", 1000, 0, 20, 143, 9999, PosInside), "latitude")}

\* one iteration of 'while True': main() stores the feed answer, the log line
\* is written, and the loop sleeps to the next tick.  The clock is read when
\* main() and the logging are over; the sleep lasts as long as asked.  When
\* main() raises, the loop ends without sleeping.
LoopIteration ==
    \E flights \in Feeds(LoopPings), duration \in Durations :
        LET begin == timer.now
            end_main == begin + duration
            sleep == sleep_duration(end_main, timer.starttime)
        IN  /\ end_main + PERIODICITY <= timer.starttime + MaxElapsed
            /\ ScrapeMain(flights, MaxLoopRows)
            /\ fetched' = flights
            /\ timer' = IF scraper' = "running"
                         THEN [starttime |-> timer.starttime,
                               begin |-> begin,
                               end_main |-> end_main,
                               sleep |-> sleep,
                               now |-> end_main + sleep,
                               iterations |-> timer.iterations + 1]
                         ELSE [timer EXCEPT !.begin = begin,
                                            !.end_main = end_main,
                                            !.now = end_main]

InitLoop ==
    /\ db = <<>>
    /\ df = <<>>
    /\ gdf = <<>>
    /\ ran = FALSE
    /\ toff_land = {}
    /\ page = "idle"
    /\ scraper = "running"
    /\ nb_flights = 0
    /\ timer \in {TimerAt(starttime) : starttime \in StartTimes}
    /\ wind_csv = NoFile
    /\ playback = NoPlayback
    /\ day_pings = NoPings
    /\ fetched = <<>>
    /\ arg = <<>>
    /\ out = <<>>

NextLoop == LoopIteration

SpecLoop == InitLoop /\ [][NextLoop]_vars

\* the page "Airports, Airlines, Aircraft": the events are aggregated and
\* map() draws their connecting airports.  The page aggregates with its own
\* copy of the function, which keeps an empty airport code as it is where
\* the one modelled here writes "N/A"; a code unknown to AIRPORTS is resolved
\* alike by both.
AirportsPage ==
    /\ ~ran
    /\ Aggregated
    /\ page' = map(aggregate_takeoffs_landings(db))
    /\ UNCHANGED <<db, scraper, fetched, arg, out, nb_flights, timer,
                   wind_csv, playback, day_pings>>

\* the page "Runway direction", lines 255-261: the events are aggregated and
\* the wind data are loaded for the range of their datetimes, from the
\* cache file and the archive
RunwayDirectionPage ==
    /\ ~ran
    /\ Aggregated
    /\ LET events == aggregate_takeoffs_landings(db)
           wind == _get_wind_data(datetime_min(events),
                                  datetime_max(events), wind_csv)
       IN  /\ page' = IF wind.error THEN "HTTPError" ELSE "wind"
           /\ wind_csv' = wind.csv
    /\ UNCHANGED <<db, scraper, fetched, arg, out, nb_flights, timer,
                   playback, day_pings>>

\* the pages on an empty table or a table of one ping, with no cache file
\* of wind data or with one that holds the first day
InitPages ==
    /\ db \in {<<>>} \cup {<<p>> : p \in EnrichPings}
    /\ df = <<>>
    /\ gdf = <<>>
    /\ ran = FALSE
    /\ toff_land = {}
    /\ page = "idle"
    /\ scraper = "running"
    /\ nb_flights = 0
    /\ timer = TimerAt(0)
    /\ wind_csv \in {NoFile, [exists |-> TRUE, rows |-> ObsOffsets]}
    /\ playback = NoPlayback
    /\ day_pings = NoPings
    /\ fetched = <<>>
    /\ arg = <<>>
    /\ out = <<>>

NextPages == AirportsPage \/ RunwayDirectionPage

SpecPages == InitPages /\ [][NextPages]_vars

\* the modal heading of a list of headings and its direction label
Direction ==
    /\ ~ran
    /\ out' = [heading |-> most_common(arg),
               rwy_direction |-> rwy_direction(most_common(arg))]
    /\ ran' = TRUE
    /\ UNCHANGED <<db, df, gdf, toff_land, page, scraper, fetched, arg,
                   nb_flights, timer, wind_csv, playback, day_pings>>

InitDirection ==
    /\ arg \in HeadingLists
    /\ out = [heading |-> 0, rwy_direction |-> ""]
    /\ db = <<>>
    /\ df = <<>>
    /\ gdf = <<>>
    /\ ran = FALSE
    /\ toff_land = {}
    /\ page = "idle"
    /\ scraper = "running"
    /\ InitRest
    /\ fetched = <<>>

NextDirection == Direction

SpecDirection == InitDirection /\ [][NextDirection]_vars

\* _get_connecting_airport applied to one event row
Connect ==
    /\ ~ran
    /\ out' = _get_connecting_airport(arg)
    /\ ran' = TRUE
    /\ UNCHANGED <<db, df, gdf, toff_land, page, scraper, fetched, arg,
                   nb_flights, timer, wind_csv, playback, day_pings>>

InitConnect ==
    /\ arg \in ConnectRows
    /\ out = ""
    /\ db = <<>>
    /\ df = <<>>
    /\ gdf = <<>>
    /\ ran = FALSE
    /\ toff_land = {}
    /\ page = "idle"
    /\ scraper = "running"
    /\ InitRest
    /\ fetched = <<>>

NextConnect == Connect

SpecConnect == InitConnect /\ [][NextConnect]_vars

\* runway_vs_wind, lines 192-194: the events are joined with the wind
Merge ==
    /\ ~ran
    /\ out' = merge_asof(arg.events, arg.wind)
    /\ ran' = TRUE
    /\ UNCHANGED <<db, df, gdf, toff_land, page, scraper, fetched, arg,
                   nb_flights, timer, wind_csv, playback, day_pings>>

InitMerge ==
    /\ arg \in MergeArgs
    /\ out = <<>>
    /\ db = <<>>
    /\ df = <<>>
    /\ gdf = <<>>
    /\ ran = FALSE
    /\ toff_land = {}
    /\ page = "idle"
    /\ scraper = "running"
    /\ InitRest
    /\ fetched = <<>>

NextMerge == Merge

SpecMerge == InitMerge /\ [][NextMerge]_vars

\* airport_zones applied to one set of arguments
Zones ==
    /\ ~ran
    /\ out' = airport_zones_of(LON, LAT, arg.azimuth, arg.long_axis,
                               arg.short_axis)
    /\ ran' = TRUE
    /\ UNCHANGED <<db, df, gdf, toff_land, page, scraper, fetched, arg,
                   nb_flights, timer, wind_csv, playback, day_pings>>

InitZones ==
    /\ arg \in ZoneArgs
    /\ out = <<>>
    /\ db = <<>>
    /\ df = <<>>
    /\ gdf = <<>>
    /\ ran = FALSE
    /\ toff_land = {}
    /\ page = "idle"
    /\ scraper = "running"
    /\ InitRest
    /\ fetched = <<>>

NextZones == Zones

SpecZones == InitZones /\ [][NextZones]_vars

-----------------------------------------------------------------------------
(* Vocabulary of the properties *)

Rows == 1..Len(gdf)

\* the rows i < j are neighbours in their aircraft's retained ping sequence
Consecutive(i, j) ==
    /\ i < j
    /\ gdf[i].fr_id = gdf[j].fr_id
    /\ \A k \in (i + 1)..(j - 1) : gdf[k].fr_id # gdf[i].fr_id

\* the table row r was selected by the query and passed the zone test
Kept(r) == TOFF_LAN_WHERE(db[r]) /\ within(Point(db[r]), airport_zones)

InGdf(r) == \E i \in Rows : gdf[i].id = r

\* stable sort of a frame by ascending time
SortRank(frame, i) ==
    Cardinality({j \in 1..Len(frame) :
        \/ frame[j].time < frame[i].time
        \/ frame[j].time = frame[i].time /\ j <= i})

SortByTime(frame) ==
    [k \in 1..Len(frame) |->
        frame[CHOOSE i \in 1..Len(frame) : SortRank(frame, i) = k]]

\* the sub-flight keys the segmentation gives on the time-sorted frame
SortedSegments == Segment(SortByTime(ZoneFilter(db_query(db))))

SortedKey(id) ==
    LET k == CHOOSE n \in 1..Len(SortedSegments) : SortedSegments[n].id = id
    IN  SortedSegments[k].subflight_id

-----------------------------------------------------------------------------
(* Track Segmenter *)

\* C1: two pings of one aircraft that are neighbours in its retained ping
\* sequence and at most 180 s apart get the same subflight_id, whatever pings
\* of other aircraft lie between them in row order.
C1_NeighboursWithinGapShareKey ==
    ran => \A i, j \in Rows :
        (Consecutive(i, j) /\ Abs(gdf[j].time - gdf[i].time) <= 180)
            => gdf[i].subflight_id = gdf[j].subflight_id

\* C2: the split test is strictly greater-than: for neighbouring pings of one
\* aircraft a delta of exactly 180 s keeps one sub-flight, a delta above 180 s
\* starts a new one.
C2_SplitStrictlyAbove180 ==
    ran => \A i, j \in Rows :
        Consecutive(i, j) =>
            /\ (gdf[j].time - gdf[i].time = 180)
                  => gdf[i].subflight_id = gdf[j].subflight_id
            /\ (gdf[j].time - gdf[i].time > 180)
                  => gdf[i].subflight_id # gdf[j].subflight_id

\* C3: whatever the row order, two pings are in the same sub-flight exactly
\* when they are in the same sub-flight of the time-sorted input.
C3_SameAsTimeSorted ==
    ran => \A i, j \in Rows :
        (gdf[i].subflight_id = gdf[j].subflight_id)
            <=> (SortedKey(gdf[i].id) = SortedKey(gdf[j].id))

\* C4: the index of the key is counted per aircraft: 0 for the aircraft's
\* first sub-flight, one more at each gap above 180 s among its own pings.
C4_IndexPerAircraft ==
    ran => \A i \in Rows :
        gdf[i].subflight_nb =
            Cardinality({j \in 1..i : /\ gdf[j].fr_id = gdf[i].fr_id
                                      /\ gdf[j].ping_delta_t > 180})

\* C5: every ping that passes the filter and the zone test is in exactly one
\* sub-flight, with its own data, and the pings of one sub-flight share one
\* fr_id.
C5_ExactlyOneSubflight ==
    ran =>
        /\ \A r \in 1..Len(db) :
              Kept(r) => Cardinality({i \in Rows : gdf[i].id = r}) = 1
        /\ \A i \in Rows : gdf[i].fr_id = db[gdf[i].id].fr_id
        /\ \A i, j \in Rows :
              gdf[i].subflight_id = gdf[j].subflight_id
                  => gdf[i].fr_id = gdf[j].fr_id

\* C5 witness: two aircraft are retained while a third row was filtered out
C5_Witness ==
    /\ ran
    /\ Len(db) = 3
    /\ Len(gdf) = 2
    /\ gdf[1].fr_id # gdf[2].fr_id
    /\ gdf[1].subflight_nb = gdf[2].subflight_nb

\* C6: listing an aircraft's retained pings by ascending time, the sub-flight
\* indices never decrease.
C6_IndexMonotoneInTime ==
    ran => \A i, j \in Rows :
        (gdf[i].fr_id = gdf[j].fr_id /\ gdf[i].time < gdf[j].time)
            => gdf[i].subflight_nb <= gdf[j].subflight_nb

-----------------------------------------------------------------------------
(* Ping Filter and Geometry Engine *)

\* C7: a ping with on_ground true or ground_speed below 20 is never selected
\* and is in no sub-flight.
C7_GroundOrSlowExcluded ==
    ran => \A r \in 1..Len(db) :
        (db[r].on_ground # 0 \/ db[r].ground_speed < 20)
            => /\ ~InGdf(r)
               /\ \A n \in 1..Len(df) : df[n].id # r

\* C7 witness: a ping on the ground and a slow ping were stored with a good one
C7_Witness ==
    /\ ran
    /\ Len(gdf) = 1
    /\ \E r \in 1..Len(db) : db[r].on_ground = 1
    /\ \E r \in 1..Len(db) : db[r].ground_speed = 19

\* C8: for integer headings 0..360 the query selects a ping exactly when it is
\* off the ground, at 20 kt or more, below 10000 ft and heading 138..147 or
\* 318..327.
C8_RunwayCandidateRange ==
    ran => ((Len(df) = 1) <=>
               /\ db[1].on_ground = 0
               /\ db[1].ground_speed >= 20
               /\ db[1].altitude < 10000
               /\ db[1].heading \in (138..147) \cup (318..327))

\* C8 witness: a ping on the reciprocal heading 327 is selected
C8_Witness ==
    /\ ran
    /\ Len(df) = 1
    /\ db[1].heading = 327

\* C9: a selected ping strictly outside the zone polygon is in no sub-flight,
\* and every time delta is taken to the aircraft's previous retained ping.
C9_OutsideExcludedBeforeDeltas ==
    ran =>
        /\ \A r \in 1..Len(db) :
              ~covered_by(Point(db[r]), airport_zones) => ~InGdf(r)
        /\ \A i \in Rows :
              LET r == gdf[i].id
                  before == {q \in 1..(r - 1) :
                                db[q].fr_id = db[r].fr_id /\ Kept(q)}
              IN  gdf[i].ping_delta_t =
                      IF before = {} THEN 0
                      ELSE db[r].time
                             - db[CHOOSE q \in before :
                                     \A k \in before : k <= q].time

\* C9 witness: an outside ping lies between two retained pings of its aircraft
\* and its time would have changed the delta
C9_Witness ==
    /\ ran
    /\ Len(db) = 3
    /\ Len(gdf) = 2
    /\ db[1].fr_id = db[2].fr_id /\ db[2].fr_id = db[3].fr_id
    /\ TOFF_LAN_WHERE(db[2])
    /\ Point(db[2]) = PosOutside
    /\ db[2].time # db[1].time
    /\ gdf[2].ping_delta_t = db[3].time - db[1].time

\* C10 as claimed: a selected ping exactly on the zone's boundary is kept.
C10_BoundaryIncluded ==
    ran => \A r \in 1..Len(db) :
        (TOFF_LAN_WHERE(db[r]) /\ OnBoundary(Point(db[r]), airport_zones))
            => InGdf(r)

\* C10 amended: a selected ping is kept exactly when it lies strictly inside
\* the zone polygon; a ping on an edge or a vertex is dropped.
C10_BoundaryExcluded ==
    ran => \A r \in 1..Len(db) :
        TOFF_LAN_WHERE(db[r]) =>
            /\ Point(db[r]) \in {PosEdge, PosCorner} => ~InGdf(r)
            /\ Point(db[r]) = PosInside => InGdf(r)
            /\ OnBoundary(Point(db[r]), airport_zones) => ~InGdf(r)

\* C10 witness: a selected ping on a corner of the zone was dropped
C10_Witness ==
    /\ ran
    /\ Len(df) = 1
    /\ Point(db[1]) = PosCorner
    /\ OnBoundary(PosCorner, airport_zones)
    /\ gdf = <<>>

-----------------------------------------------------------------------------
(* Event Aggregator *)

\* the retained pings of an event's sub-flight, in row order
GroupOf(event) == Group(gdf, event.subflight_id)

\* C11: an event is a "takeoff" exactly when the vertical speeds of its
\* sub-flight's pings sum to 0 or more (a mean of exactly 0 is a takeoff) and
\* a "landing" otherwise; there is no third kind.
C11_TakeoffIffMeanNonNegative ==
    ran => \A e \in toff_land :
        LET speeds == Column(GroupOf(e), "vertical_speed")
        IN  /\ e.rwy_event \in {"takeoff", "landing"}
            /\ (e.rwy_event = "takeoff") <=> (Sum(speeds) >= 0)
            /\ (e.rwy_event = "landing") <=> (Sum(speeds) < 0)

\* C11 witness: a sub-flight whose speeds 1 and -1 average to exactly 0 is a
\* takeoff, next to a sub-flight that is a landing
C11_Witness ==
    /\ ran
    /\ \E e \in toff_land :
          /\ Column(GroupOf(e), "vertical_speed") = <<1, -1>>
          /\ e.rwy_event = "takeoff"
    /\ \E e \in toff_land : e.rwy_event = "landing"

\* C12: the heading of an event is a heading of its sub-flight's pings that
\* no other value outnumbers, and among the values with that highest count
\* it is the one met first in the sub-flight's ping sequence.
C12_ModeFirstEncountered ==
    ran => \A e \in toff_land :
        LET headings == Column(GroupOf(e), "heading")
            At(v) == {i \in 1..Len(headings) : headings[i] = v}
            FirstAt(v) == CHOOSE i \in At(v) : \A j \in At(v) : i <= j
        IN  /\ At(e.heading) # {}
            /\ \A i \in 1..Len(headings) :
                  /\ Cardinality(At(headings[i])) <= Cardinality(At(e.heading))
                  /\ Cardinality(At(headings[i])) = Cardinality(At(e.heading))
                        => FirstAt(e.heading) <= i

\* C12 witness: three headings tie and the first of them, neither the least
\* nor the greatest, is chosen
C12_Witness ==
    /\ ran
    /\ \E e \in toff_land :
          /\ Column(GroupOf(e), "heading") = <<142, 140, 320>>
          /\ e.heading = 142

\* C13: the direction label is "14" exactly when the modal heading is at most
\* 161.4 and "32" otherwise; the headings 140, 142, 142, 320 give the mode 142
\* and the label "14".
C13_DirectionLabel ==
    ran =>
        /\ out.rwy_direction \in {"14", "32"}
        /\ (out.rwy_direction = "14") <=> (10 * out.heading <= 1614)
        /\ arg = <<140, 142, 142, 320>>
              => (out.heading = 142 /\ out.rwy_direction = "14")

\* C13 witness: the example list was labelled
C13_Witness ==
    /\ ran
    /\ arg = <<140, 142, 142, 320>>
    /\ out = [heading |-> 142, rwy_direction |-> "14"]

\* C14 as claimed: the threshold is the midpoint of the two reciprocal runway
\* headings, so a heading is labelled "14" exactly when it is at most that
\* midpoint.
C14_ThresholdIsMidpoint ==
    ran => ((out.rwy_direction = "14")
               <=> (2 * 10 * out.heading <= RWY_HDG + (RWY_HDG + 1800)))

\* C14 amended: the threshold is half of the reciprocal heading, 161.4: it
\* lies between the two runway headings, below their midpoint 232.8.  The
\* headings within 5 degrees of the runway heading are labelled "14", those
\* within 5 degrees of the reciprocal "32", and so are the headings between
\* the threshold and the midpoint.
C14_ThresholdHalfOfReciprocal ==
    /\ 2 * direction_threshold = RWY_HDG + 1800
    /\ RWY_HDG < direction_threshold
    /\ 2 * direction_threshold < RWY_HDG + (RWY_HDG + 1800)
    /\ ran =>
          /\ Abs(10 * out.heading - RWY_HDG) < 50 => out.rwy_direction = "14"
          /\ Abs(10 * out.heading - (RWY_HDG + 1800)) < 50
                => out.rwy_direction = "32"
          /\ (/\ 10 * out.heading > direction_threshold
              /\ 2 * 10 * out.heading <= RWY_HDG + (RWY_HDG + 1800))
                => out.rwy_direction = "32"

\* C14 witness: the heading 200, below the midpoint, is labelled "32"
C14_Witness ==
    /\ ran
    /\ out.heading = 200
    /\ out.rwy_direction = "32"

\* C15: the connecting airport is the destination display string of a
\* takeoff, the origin display string of a landing, and "N/A" for any other
\* event kind.
C15_ConnectingAirportByKind ==
    ran =>
        /\ arg.rwy_event = "takeoff" => out = arg.destination_airport
        /\ arg.rwy_event = "landing" => out = arg.origin_airport
        /\ arg.rwy_event \notin {"takeoff", "landing"} => out = "N/A"

\* C15 witness: a takeoff whose two airports differ got its destination
C15_Witness ==
    /\ ran
    /\ arg.rwy_event = "takeoff"
    /\ arg.origin_airport = "Paris-Orly (ORY)"
    /\ arg.destination_airport = " (XYZ)"
    /\ out = " (XYZ)"

\* C16: a code absent from its reference table never causes an error where
\* the events are enriched or consumed: the display string has an empty name
\* and the code in parentheses, and the page that maps the events renders.
C16_UnknownCodeNeverAnError ==
    ran =>
        /\ \A e \in toff_land :
              /\ e.airline_icao \notin DOMAIN AIRLINES
                    => e.airline = " (" \o e.airline_icao \o ")"
              /\ e.aircraft_code \notin DOMAIN AIRCRAFT
                    => e.aircraft = " (" \o e.aircraft_code \o ")"
              /\ e.origin_airport_iata \notin DOMAIN AIRPORTS \cup {""}
                    => e.origin_airport = " (" \o e.origin_airport_iata \o ")"
              /\ e.destination_airport_iata \notin DOMAIN AIRPORTS \cup {""}
                    => e.destination_airport
                          = " (" \o e.destination_airport_iata \o ")"
        /\ page # "KeyError"

\* C17: the time, the datetime and the scalar fields of an event are those of
\* the earliest ping of its sub-flight.
C17_FirstPingInTimeOrder ==
    ran => \A e \in toff_land :
        LET group == GroupOf(e)
        IN  \E i \in 1..Len(group) :
                /\ \A j \in 1..Len(group) : group[i].time <= group[j].time
                /\ e.time = group[i].time
                /\ e.datetime = group[i].datetime
                /\ e.aircraft_code = group[i].aircraft_code
                /\ e.registration = group[i].registration
                /\ e.callsign = group[i].callsign
                /\ e.number = group[i].number
                /\ e.airline_iata = group[i].airline_iata
                /\ e.airline_icao = group[i].airline_icao
                /\ e.origin_airport_iata = group[i].origin_airport_iata
                /\ e.destination_airport_iata
                      = group[i].destination_airport_iata

\* C19: when no ping passes the filter and the zone test there is no event
\* and no error, neither in the aggregation nor where the wind range is
\* derived from the events.
C19_EmptyInputNoError ==
    (ran /\ gdf = <<>>) =>
        /\ toff_land = {}
        /\ page \notin {"KeyError", "HTTPError"}

-----------------------------------------------------------------------------
(* Ingestion *)

\* C20: a malformed ping of a feed answer is left out and is not fatal: the
\* well-formed pings of the same answer are stored, no malformed one is, and
\* the polling loop goes on.
C20_MalformedExcludedNotFatal ==
    /\ scraper = "running"
    /\ \A i \in 1..Len(fetched) :
          WellFormed(fetched[i]) => \E r \in 1..Len(db) : db[r] = fetched[i]
    /\ \A r \in 1..Len(db) : WellFormed(db[r])

-----------------------------------------------------------------------------
(* Geometry Engine: the zone polygon *)

\* the two ends of the runway axis for the arguments in arg
AxisEnd(az) == fwd(LON, LAT, az, arg.long_axis)

Dist2(a, b) == (a[1] - b[1]) * (a[1] - b[1]) + (a[2] - b[2]) * (a[2] - b[2])

\* the runway end a corner belongs to: the nearer end of the axis
EndOf(v) ==
    IF Dist2(v, AxisEnd(arg.azimuth)) < Dist2(v, AxisEnd(arg.azimuth + 180))
    THEN "se" ELSE "nw"

\* the lateral side of a corner: left or right of the axis
SideOf(v) ==
    Cross(AxisEnd(arg.azimuth + 180), AxisEnd(arg.azimuth), v) > 0

\* the segments a-b and c-d cross each other
Sign(v) == IF v > 0 THEN 1 ELSE IF v < 0 THEN -1 ELSE 0

SegmentsCross(a, b, c, d) ==
    /\ Sign(Cross(a, b, c)) * Sign(Cross(a, b, d)) < 0
    /\ Sign(Cross(c, d, a)) * Sign(Cross(c, d, b)) < 0

\* C25: consecutive corners of the zone polygon share the runway end or the
\* lateral side, and no two opposite edges of the ring cross, for every
\* azimuth.
C25_VertexOrderWalksRectangle ==
    ran =>
        /\ \A i \in 1..4 :
              \/ EndOf(out[i]) = EndOf(EdgeEnd(out, i))
              \/ SideOf(out[i]) = SideOf(EdgeEnd(out, i))
        /\ ~SegmentsCross(out[1], out[2], out[3], out[4])
        /\ ~SegmentsCross(out[2], out[3], out[4], out[1])
        /\ Cardinality({out[i] : i \in 1..4}) = 4

\* C25 witness: the polygon of a north-east bearing, far from the runway's own
C25_Witness ==
    /\ ran
    /\ arg.azimuth = 37
    /\ EndOf(out[1]) = "nw" /\ EndOf(out[2]) = "nw"
    /\ EndOf(out[3]) = "se" /\ EndOf(out[4]) = "se"
    /\ SideOf(out[2]) = SideOf(out[3])
    /\ SideOf(out[4]) = SideOf(out[1])
    /\ SideOf(out[1]) # SideOf(out[2])

\* C26: every corner lies short_axis / 2 from its end of the runway axis, so
\* the zone is short_axis wide.
C26_WidthIsShortAxis ==
    ran =>
        /\ 4 * Dist2(out[1], AxisEnd(arg.azimuth + 180))
              = arg.short_axis * arg.short_axis
        /\ 4 * Dist2(out[3], AxisEnd(arg.azimuth))
              = arg.short_axis * arg.short_axis
        /\ Dist2(out[1], out[2]) = arg.short_axis * arg.short_axis
        /\ Dist2(out[3], out[4]) = arg.short_axis * arg.short_axis

-----------------------------------------------------------------------------
(* Wind correlation *)

\* C24: every event is joined with the wind observation nearest in time to
\* its datetime, whether that observation is before or after the event.
C24_NearestObservation ==
    ran => \A i \in 1..Len(out) :
        arg.wind # {} =>
            /\ out[i].matched
            /\ \A w \in arg.wind :
                  Abs(out[i].datetime2 - out[i].datetime)
                      <= Abs(w - out[i].datetime)

-----------------------------------------------------------------------------
(* Scraper: the record store *)

\* C21: the record store is append-only: an iteration keeps every stored row
\* as it is, adds exactly one row per flight of the feed answer, in the
\* answer's order, and returns the number of flights of the answer.
C21_AppendOnlyOneRowPerFlight ==
    [][ /\ Len(db') >= Len(db)
        /\ SubSeq(db', 1, Len(db)) = db
        /\ db' = db \o fetched'
        /\ nb_flights' = Len(fetched') ]_vars

-----------------------------------------------------------------------------
(* Scraper: the polling loop *)

\* the first tick of the loop's period after the instant t
NextTick(t) ==
    timer.starttime
        + (((t - timer.starttime) \div PERIODICITY) + 1) * PERIODICITY

\* C29: after every iteration of the polling loop the sleep was longer than
\* 0 and at most 30 s; the iteration began, and the next one begins, at a
\* time congruent to the loop's start modulo 30 s, however long main() took:
\* the next one begins at the first tick after main() ended, so an overrun
\* skips to the next tick, and never before main() ended.
C29_SleepToNextTick ==
    (timer.iterations > 0 /\ scraper = "running") =>
        /\ timer.sleep > 0
        /\ timer.sleep <= PERIODICITY
        /\ (timer.begin - timer.starttime) % PERIODICITY = 0
        /\ (timer.now - timer.starttime) % PERIODICITY = 0
        /\ timer.begin <= timer.end_main
        /\ timer.end_main < timer.now
        /\ timer.now = NextTick(timer.end_main)

\* C29 witness: the second or a later iteration overran its period by one
\* second and the loop slept 29 s to the tick after
C29_Witness ==
    /\ scraper = "running"
    /\ timer.iterations >= 2
    /\ timer.end_main - timer.begin = PERIODICITY + 1
    /\ timer.sleep = PERIODICITY - 1
    /\ timer.now = timer.begin + 2 * PERIODICITY

-----------------------------------------------------------------------------
(* Consumers: the cache of wind observations *)

\* C28: a call of _get_wind_data() loses no observation: every observation
\* of the cache file before the call, and every one the archive sent during
\* it, is in the cache file afterwards, also when it is both in the cached
\* data and in a newly fetched range.
C28_CacheKeepsObservations ==
    [][ /\ wind_csv.rows \subseteq wind_csv'.rows
        /\ out'.fetched \subseteq wind_csv'.rows ]_vars

-----------------------------------------------------------------------------
(* History scraper: the cache of flight playbacks *)

\* every flight of flights_to_dl.csv has its metadata file
AllCached ==
    \A i \in 1..Len(FlightsToDl) : Hex(FlightsToDl[i]) \in playback.cached

\* the run has gone through all rows
RunOver == playback.row = Len(FlightsToDl) + 1

\* C22: a flight rejected with HTTP 429 is requested again after the wait:
\* every run of async_get_flights that is started comes to its end with
\* every flight of flights_to_dl.csv cached, unless the service answered
\* with an HTTP error other than 429 in that run.
C22_RejectedFlightRequestedAgain ==
    \A r \in 1..MaxRuns :
        (playback.run = r /\ playback.row = 1)
            ~> (playback.run = r /\ RunOver
                   /\ (playback.errors = 0 => AllCached))

\* C30: get_flight_playback() never requests a flight whose metadata file
\* exists: no flight cached at the start of a run is requested in it, and a
\* run started with every flight cached requests nothing and leaves the
\* cache as it was.
C30_CachedFlightNotRequested ==
    /\ \A k \in 1..Len(playback.requested) :
          Hex(playback.requested[k]) \notin playback.start_cached
    /\ (playback.run > 0 /\ \A i \in 1..Len(FlightsToDl) :
                               Hex(FlightsToDl[i]) \in playback.start_cached)
          => playback.requested = <<>> /\ playback.cached = playback.start_cached

\* C30 witness: a first run cached every flight with three requests, and a
\* second run over the same rows has ended without a request
C30_Witness ==
    /\ playback.run = 2
    /\ RunOver
    /\ AllCached
    /\ playback.start_cached = playback.cached
    /\ playback.requested = <<>>

-----------------------------------------------------------------------------
(* History scraper: the pings of a day *)

\* the snapshots of a requested day whose query had the given outcome
SnapshotsWith(d, outcomes) ==
    {<<d, i>> : i \in {k \in 1..MaxSnapshots :
                           day_pings.snapshots[d][k] \in outcomes}}

\* C23: for every requested day the day's file is written with the records
\* of every snapshot query that succeeded, and every snapshot that failed is
\* in the log: a failed snapshot neither keeps the file from being written
\* nor discards the records collected for the day.
C23_DayFileWrittenFailuresLogged ==
    \A d \in 1..Len(day_pings.snapshots) :
        /\ \E f \in 1..Len(day_pings.files) :
              /\ day_pings.files[f].day = d
              /\ day_pings.files[f].records = SnapshotsWith(d, {"ok"})
        /\ SnapshotsWith(d, {"AssertionError", "Exception"})
              \subseteq day_pings.log

=============================================================================
